---- MODULE Spec2Model ----
(***************************************************************************)
(* Model of homeassistant/components/fronius/sensor.py: the configuration  *)
(* validator, the platform set-up, the polling adapters and the per-field  *)
(* sensor entities they spawn.                                             *)
(*                                                                         *)
(* Python values are tagged records (PyNone, PyStr, PyInt, PyFloat); a     *)
(* float is kept in thousandths so that round(x, 2) is a real conversion.  *)
(* Python dicts are TLA+ functions whose DOMAIN is the dict's key set.     *)
(***************************************************************************)
EXTENDS Integers, Sequences, FiniteSets, TLC

(***************************************************************************)
(* Bounds of the model.                                                    *)
(***************************************************************************)
\* longest monitored_conditions list enumerated for the validator
MaxConds == 2
\* largest explicit device index enumerated for the validator
MaxDevice == 2
\* most timer ticks (fetches beyond the initial ones) in one run
MaxTicks == 3
\* most timer ticks in one run of the set-up of several adapters
MaxSetupTicks == 2
\* most entity removals performed by the host in one run
MaxRemovals == 1

(***************************************************************************)
(* Constants of sensor.py.                                                 *)
(***************************************************************************)
CONF_DEVICE == "device"
CONF_MONITORED_CONDITIONS == "monitored_conditions"
CONF_RESOURCE == "resource"
CONF_SENSOR_TYPE == "sensor_type"
CONF_SCOPE == "scope"

TYPE_INVERTER == "inverter"
TYPE_STORAGE == "storage"
TYPE_METER == "meter"
TYPE_POWER_FLOW == "power_flow"
TYPE_LOGGER_INFO == "logger_info"
SCOPE_DEVICE == "device"
SCOPE_SYSTEM == "system"

DEFAULT_SCOPE == SCOPE_DEVICE
DEFAULT_DEVICE == 0
DEFAULT_INVERTER == 1

SENSOR_TYPES == <<TYPE_INVERTER, TYPE_STORAGE, TYPE_METER, TYPE_POWER_FLOW, TYPE_LOGGER_INFO>>
SCOPE_TYPES == <<SCOPE_DEVICE, SCOPE_SYSTEM>>

\* the "no class" value of an entity attribute that was never assigned
PyNone == [type |-> "NoneType"]
PyStr(s) == [type |-> "str", s |-> s]
PyInt(n) == [type |-> "int", n |-> n]
\* a float, in thousandths
PyFloat(m) == [type |-> "float", milli |-> m]

PREFIX_DEVICE_CLASS_MAPPING ==
    << <<"state_of_charge", "battery">>,
       <<"temperature", "temperature">>,
       <<"power_factor", "power_factor">>,
       <<"power", "power">>,
       <<"energy", "energy">>,
       <<"current", "current">>,
       <<"timestamp", "timestamp">>,
       <<"voltage", "voltage">> >>

PREFIX_STATE_CLASS_MAPPING ==
    << <<"state_of_charge", "measurement">>,
       <<"temperature", "measurement">>,
       <<"power_factor", "measurement">>,
       <<"power", "measurement">>,
       <<"energy", "total_increasing">>,
       <<"current", "measurement">>,
       <<"timestamp", "measurement">>,
       <<"voltage", "measurement">> >>

(***************************************************************************)
(* Python string helpers.                                                  *)
(***************************************************************************)
\* str.startswith
startswith(s, prefix) ==
    /\ Len(prefix) <= Len(s)
    /\ SubSeq(s, 1, Len(prefix)) = prefix

LowerLetters == "abcdefghijklmnopqrstuvwxyz"
UpperLetters == "ABCDEFGHIJKLMNOPQRSTUVWXYZ"

CharAt(s, i) == SubSeq(s, i, i)

\* position of the one-character string c in letters, 0 when it is not there
RECURSIVE IndexIn(_, _, _)
IndexIn(letters, c, i) ==
    IF i > Len(letters) THEN 0
    ELSE IF CharAt(letters, i) = c THEN i
    ELSE IndexIn(letters, c, i + 1)

upper(c) ==
    IF IndexIn(LowerLetters, c, 1) = 0 THEN c
    ELSE CharAt(UpperLetters, IndexIn(LowerLetters, c, 1))

lower(c) ==
    IF IndexIn(UpperLetters, c, 1) = 0 THEN c
    ELSE CharAt(LowerLetters, IndexIn(UpperLetters, c, 1))

\* s.replace("_", " ")
RECURSIVE replace_underscore(_)
replace_underscore(s) ==
    IF Len(s) = 0 THEN s
    ELSE (IF CharAt(s, 1) = "_" THEN " " ELSE CharAt(s, 1))
             \o replace_underscore(SubSeq(s, 2, Len(s)))

RECURSIVE lower_all(_)
lower_all(s) ==
    IF Len(s) = 0 THEN s
    ELSE lower(CharAt(s, 1)) \o lower_all(SubSeq(s, 2, Len(s)))

\* str.capitalize: first character upper-cased, the rest lower-cased
capitalize(s) ==
    IF Len(s) = 0 THEN s
    ELSE upper(CharAt(s, 1)) \o lower_all(SubSeq(s, 2, Len(s)))

(***************************************************************************)
(* _device_id_validator                                                    *)
(***************************************************************************)
\* faulty variant: every missing index defaults to DEFAULT_DEVICE
DefaultDeviceFor_no_inverter(cond) == DEFAULT_DEVICE

\* the default the validator gives a condition that has no device index
DefaultDeviceFor(cond) ==
    IF cond[CONF_SENSOR_TYPE] = TYPE_INVERTER
    THEN DEFAULT_INVERTER
    ELSE DEFAULT_DEVICE

ValidateCondition(cond) ==
    IF CONF_DEVICE \notin DOMAIN cond
    THEN cond @@ (CONF_DEVICE :> DefaultDeviceFor(cond))
    ELSE cond

_device_id_validator(cfg) ==
    [cfg EXCEPT ![CONF_MONITORED_CONDITIONS] =
        [i \in DOMAIN @ |-> ValidateCondition(@[i])]]

(***************************************************************************)
(* The telemetry client (pyfronius), an external collaborator: one fetch   *)
(* either raises FroniusError or returns a dict field name -> entry.       *)
(***************************************************************************)
FieldNames == {"power_ac", "energy_day", "status"}

\* the entries the client may return for a field; the "status" entry has no
\* "value" member.  Float values whose third decimal is 5 are not drawn:
\* how round(x, 2) breaks such a tie depends on the binary representation.
EntriesOf(field) ==
    CASE field = "power_ac" ->
            { [value |-> PyFloat(1234), unit |-> PyStr("W")],
              [value |-> PyFloat(5678), unit |-> PyStr("W")] }
      [] field = "energy_day" ->
            { [value |-> PyInt(9)] }
      [] OTHER ->
            { [Code |-> PyInt(0)] }

\* every dict the client may answer with
Responses ==
    UNION { { r \in [present -> UNION { EntriesOf(f) : f \in present }] :
                \A f \in present : r[f] \in EntriesOf(f) }
            : present \in SUBSET FieldNames }

(***************************************************************************)
(* dict helpers                                                            *)
(***************************************************************************)
\* dict.get(key): None when the key is missing
get(d, key) == IF key \in DOMAIN d THEN d[key] ELSE PyNone

\* faulty variant: truncation instead of rounding
round2_truncate(m) == m - (m % 10)

\* round(x, 2) of a float kept in thousandths
round2(m) == IF m % 10 < 5 THEN m - (m % 10) ELSE m - (m % 10) + 10

(***************************************************************************)
(* FroniusTemplateSensor                                                   *)
(***************************************************************************)
\* faulty variant: the loop without its break, the last matching entry wins
RECURSIVE ClassFromMapping_no_break(_, _, _)
ClassFromMapping_no_break(mapping, key, i) ==
    IF i > Len(mapping) THEN PyNone
    ELSE IF startswith(key, mapping[i][1])
              /\ ClassFromMapping_no_break(mapping, key, i + 1) = PyNone
         THEN PyStr(mapping[i][2])
    ELSE ClassFromMapping_no_break(mapping, key, i + 1)

\* the loops of FroniusTemplateSensor.__init__: the class of the first entry
\* whose prefix the key starts with (break), None when the loop runs out
RECURSIVE ClassFromMapping(_, _, _)
ClassFromMapping(mapping, key, i) ==
    IF i > Len(mapping) THEN PyNone
    ELSE IF startswith(key, mapping[i][1]) THEN PyStr(mapping[i][2])
    ELSE ClassFromMapping(mapping, key, i + 1)

DeviceClassOf(key) == ClassFromMapping(PREFIX_DEVICE_CLASS_MAPPING, key, 1)

StateClassOf(key) == ClassFromMapping(PREFIX_STATE_CLASS_MAPPING, key, 1)

\* FroniusTemplateSensor.__init__; phase is the entity's place in the host's
\* life cycle: "new" (handed to add_entities), "updated" (refreshed before
\* being added), "added" (async_added_to_hass ran), "removed"
FroniusTemplateSensor(parent_name, key) ==
    [ _key |-> key,
      _attr_name |-> capitalize(replace_underscore(key)) \o " " \o parent_name,
      _attr_device_class |-> DeviceClassOf(key),
      _attr_state_class |-> StateClassOf(key),
      _attr_native_value |-> PyNone,
      _attr_native_unit_of_measurement |-> PyNone,
      phase |-> "new" ]

\* the value FroniusTemplateSensor.async_update stores for an entry
NativeValueOf(state) ==
    IF get(state, "value").type = "float"
    THEN PyFloat(round2(get(state, "value").milli))
    ELSE get(state, "value")

\* FroniusTemplateSensor.async_update, given the parent's snapshot; the
\* snapshot lacking the key makes state None and state.get raise
SensorUpdateRaises(data, sensor) == sensor._key \notin DOMAIN data

SensorUpdate(data, sensor) ==
    IF SensorUpdateRaises(data, sensor) THEN sensor
    ELSE [sensor EXCEPT
            !._attr_native_value = NativeValueOf(data[sensor._key]),
            !._attr_native_unit_of_measurement = get(data[sensor._key], "unit")]

(***************************************************************************)
(* async_setup_platform: the adapter built for one condition               *)
(***************************************************************************)
AdapterCls(sensor_type, scope) ==
    IF sensor_type = TYPE_INVERTER
    THEN (IF scope = SCOPE_SYSTEM THEN "FroniusInverterSystem" ELSE "FroniusInverterDevice")
    ELSE IF sensor_type = TYPE_METER
    THEN (IF scope = SCOPE_SYSTEM THEN "FroniusMeterSystem" ELSE "FroniusMeterDevice")
    ELSE IF sensor_type = TYPE_POWER_FLOW THEN "FroniusPowerFlow"
    ELSE IF sensor_type = TYPE_LOGGER_INFO THEN "FroniusLoggerInfo"
    ELSE "FroniusStorage"

AdapterName(condition, resource) ==
    "Fronius " \o capitalize(replace_underscore(condition[CONF_SENSOR_TYPE]))
        \o " "
        \o (IF condition[CONF_SCOPE] = SCOPE_DEVICE
            THEN ToString(condition[CONF_DEVICE])
            ELSE SCOPE_SYSTEM)
        \o " " \o resource

\* adapter_cls(fronius, name, device, async_add_entities)
NewAdapter(condition, resource) ==
    [ cls |-> AdapterCls(condition[CONF_SENSOR_TYPE], condition[CONF_SCOPE]),
      _name |-> AdapterName(condition, resource),
      _device |-> condition[CONF_DEVICE] ]

\* the first loop of async_setup_platform
BuildAdapters(cfg) ==
    [i \in DOMAIN cfg[CONF_MONITORED_CONDITIONS] |->
        NewAdapter(cfg[CONF_MONITORED_CONDITIONS][i], cfg[CONF_RESOURCE])]

(***************************************************************************)
(* State.                                                                  *)
(***************************************************************************)
VARIABLES
    raw_config,          \* the configuration as written by the user
    config,              \* the configuration handed to async_setup_platform
    pc,                  \* where the platform set-up stands
    setup_idx,           \* index of the adapter the second set-up loop is at
    adapters,            \* the list adapters of async_setup_platform
    fetched,             \* per adapter: _fetched, field name -> entry
    available,           \* per adapter: _available
    sensors,             \* per adapter: sensors, the field names materialized
    registered_sensors,  \* per adapter: _registered_sensors (entity ids)
    entities,            \* per adapter: every FroniusTemplateSensor created,
                         \*   by identity <<field name, serial>>
    scheduled,           \* per adapter and entity: refreshes scheduled with
                         \*   async_schedule_update_ha_state, not yet run
    timers,              \* per adapter: interval timers registered for it
    awaiting,            \* per adapter: fetches started by a timer tick that
                         \*   await the telemetry client
    log,                 \* per adapter: lines written to _LOGGER, by level
    hist,                \* per adapter: history of its fetches (observer)
    ticks,               \* timer ticks so far (observer, bounds the run)
    removals,            \* entities removed so far (observer, bounds the run)
    raised               \* exceptions that left a coroutine of this module

vars ==
    << raw_config, config, pc, setup_idx, adapters, fetched, available, sensors,
       registered_sensors, entities, scheduled, timers, awaiting, log, hist,
       ticks, removals, raised >>

AdapterIds == DOMAIN adapters

\* the state of a FroniusAdapter after __init__
NewAdapterState(ids) ==
    /\ fetched' = [a \in ids |-> << >>]
    /\ available' = [a \in ids |-> TRUE]
    /\ sensors' = [a \in ids |-> {}]
    /\ registered_sensors' = [a \in ids |-> {}]
    /\ entities' = [a \in ids |-> << >>]
    /\ scheduled' = [a \in ids |-> << >>]
    /\ log' = [a \in ids |-> [error |-> 0, info |-> 0]]
    /\ hist' = [a \in ids |->
                  [ completed |-> 0, last_outcome |-> "none", fail_streak |-> 0,
                    streaks |-> 0, streak_errors |-> 0, initial_fetches |-> 0,
                    overlapped |-> FALSE, last_values |-> << >> ]]
    /\ timers' = [a \in ids |-> 0]
    /\ awaiting' = [a \in ids |-> 0]

(***************************************************************************)
(* Configurations.                                                         *)
(***************************************************************************)
Resource == "http://fronius"

\* a monitored condition as the schema leaves it before _device_id_validator:
\* scope is always there (it has a default), the device index is optional
Cond(sensor_type, scope) ==
    (CONF_SENSOR_TYPE :> sensor_type) @@ (CONF_SCOPE :> scope)

CondDev(sensor_type, scope, device) ==
    Cond(sensor_type, scope) @@ (CONF_DEVICE :> device)

Config(conditions) ==
    (CONF_RESOURCE :> Resource) @@ (CONF_MONITORED_CONDITIONS :> conditions)

Range(seq) == { seq[i] : i \in DOMAIN seq }

RawConditions ==
    { Cond(t, s) : t \in Range(SENSOR_TYPES), s \in Range(SCOPE_TYPES) }
    \cup { CondDev(t, s, d) : t \in Range(SENSOR_TYPES), s \in Range(SCOPE_TYPES),
                              d \in 0..MaxDevice }

\* every configuration of at most MaxConds conditions
RawConfigs ==
    { Config(c) : c \in UNION { [1..n -> RawConditions] : n \in 0..MaxConds } }

\* a configuration of one adapter
OneAdapterConfigs ==
    { Config(<< Cond(TYPE_INVERTER, SCOPE_DEVICE) >>) }

\* configurations of several adapters
SetupConfigs ==
    { Config(<< Cond(TYPE_POWER_FLOW, SCOPE_DEVICE),
                CondDev(TYPE_METER, SCOPE_SYSTEM, 2) >>),
      Config(<< Cond(TYPE_STORAGE, SCOPE_DEVICE),
                Cond(TYPE_INVERTER, SCOPE_SYSTEM),
                CondDev(TYPE_LOGGER_INFO, SCOPE_DEVICE, 1) >>) }

(***************************************************************************)
(* FroniusAdapter.async_update, after the await of self._update()          *)
(***************************************************************************)
\* faulty variant: the snapshot is replaced by the response's entries
MergeValues_replace(attributes, values) ==
    LET copied == { key \in DOMAIN values : "value" \in DOMAIN values[key] }
    IN  [key \in copied |-> values[key]]

\* the copy loop: only entries with a "value" member are copied
MergeValues(attributes, values) ==
    LET copied == { key \in DOMAIN values : "value" \in DOMAIN values[key] }
    IN  [key \in (DOMAIN attributes) \cup copied |->
            IF key \in copied THEN values[key] ELSE attributes[key]]

\* faulty variant: the discovery loop without its "not in self.sensors" test
NewSensorKeys_all(attributes, known) == DOMAIN attributes

\* the keys the discovery loop makes a sensor for
NewSensorKeys(attributes, known) ==
    { key \in DOMAIN attributes : key \notin known }

\* faulty variant: the except branch logs every failure
LogsError_always(is_available) == TRUE

\* faulty variant: the except branch tests the flag the wrong way round
LogsError_inverted(is_available) == ~is_available

\* whether the except branch logs
LogsError(is_available) == is_available

\* identity of the next FroniusTemplateSensor made for key
NextEntityId(ents, key) ==
    << key, Cardinality({ e \in DOMAIN ents : e[1] = key }) + 1 >>

\* entities with the sensors made for the keys of new_keys added
WithNewSensors(ents, new_keys, parent_name) ==
    LET ids == { NextEntityId(ents, key) : key \in new_keys }
    IN  [e \in (DOMAIN ents) \cup ids |->
            IF e \in DOMAIN ents THEN ents[e]
            ELSE FroniusTemplateSensor(parent_name, e[1])]

\* fetches of adapter a that await the telemetry client
InFlight(a) ==
    awaiting[a] + (IF pc = "await" /\ setup_idx = a THEN 1 ELSE 0)

\* the coroutine that called async_update goes on: the set-up after its
\* "await fetch()", a timer's fetch_data by returning
Resume(a, caller) ==
    IF caller = "setup"
    THEN /\ pc = "await"
         /\ setup_idx = a
         /\ pc' = "track"
         /\ UNCHANGED awaiting
    ELSE /\ awaiting[a] > 0
         /\ awaiting' = [awaiting EXCEPT ![a] = @ - 1]
         /\ UNCHANGED pc

\* faulty variant: the except branch also drops the snapshot
FetchFail_drops_snapshot(a, caller) ==
    /\ Resume(a, caller)
    /\ available' = [available EXCEPT ![a] = FALSE]
    /\ fetched' = [fetched EXCEPT ![a] = << >>]
    /\ log' = [log EXCEPT ![a].error = IF LogsError(available[a]) THEN @ + 1 ELSE @]
    /\ hist' = [hist EXCEPT
                  ![a].completed = @ + 1,
                  ![a].last_outcome = "fail",
                  ![a].fail_streak = @ + 1,
                  ![a].streaks = IF hist[a].last_outcome = "fail" THEN @ ELSE @ + 1,
                  ![a].streak_errors = IF LogsError(available[a]) THEN @ + 1 ELSE @]
    /\ UNCHANGED << raw_config, config, setup_idx, adapters, sensors,
                    registered_sensors, entities, scheduled, timers, ticks,
                    removals, raised >>

\* self._update() raised FroniusError
FetchFail(a, caller) ==
    /\ Resume(a, caller)
    /\ available' = [available EXCEPT ![a] = FALSE]
    /\ log' = [log EXCEPT ![a].error = IF LogsError(available[a]) THEN @ + 1 ELSE @]
    /\ hist' = [hist EXCEPT
                  ![a].completed = @ + 1,
                  ![a].last_outcome = "fail",
                  ![a].fail_streak = @ + 1,
                  ![a].streaks = IF hist[a].last_outcome = "fail" THEN @ ELSE @ + 1,
                  ![a].streak_errors = IF LogsError(available[a]) THEN @ + 1 ELSE @]
    /\ UNCHANGED << raw_config, config, setup_idx, adapters, fetched, sensors,
                    registered_sensors, entities, scheduled, timers, ticks,
                    removals, raised >>

\* self._update() returned values
FetchSuccess(a, caller, values) ==
    LET attributes == MergeValues(fetched[a], values)
        new_keys == NewSensorKeys(attributes, sensors[a])
        ents == WithNewSensors(entities[a], new_keys, adapters[a]._name)
    IN  /\ Resume(a, caller)
        /\ available' = [available EXCEPT ![a] = TRUE]
        /\ fetched' = [fetched EXCEPT ![a] = attributes]
        /\ sensors' = [sensors EXCEPT ![a] = @ \cup new_keys]
        /\ entities' = [entities EXCEPT ![a] = ents]
        /\ scheduled' = [scheduled EXCEPT ![a] =
                            [e \in DOMAIN ents |->
                                (IF e \in DOMAIN @ THEN @[e] ELSE 0)
                                + (IF e \in registered_sensors[a] THEN 1 ELSE 0)]]
        /\ log' = [log EXCEPT ![a].info = @ + Cardinality(new_keys)]
        /\ hist' = [hist EXCEPT
                      ![a].completed = @ + 1,
                      ![a].last_outcome = "ok",
                      ![a].fail_streak = 0,
                      ![a].streak_errors = 0,
                      ![a].last_values = values]
        /\ UNCHANGED << raw_config, config, setup_idx, adapters,
                        registered_sensors, timers, ticks, removals, raised >>

(***************************************************************************)
(* Schema validation and async_setup_platform                              *)
(***************************************************************************)
ValidateConfig ==
    /\ pc = "unvalidated"
    /\ config' = _device_id_validator(config)
    /\ pc' = "start"
    /\ UNCHANGED << raw_config, setup_idx, adapters, fetched, available, sensors,
                    registered_sensors, entities, scheduled, timers, awaiting,
                    log, hist, ticks, removals, raised >>

\* the first loop: one adapter per monitored condition
SetupCreateAdapters ==
    /\ pc = "start"
    /\ adapters' = BuildAdapters(config)
    /\ NewAdapterState(DOMAIN adapters')
    /\ setup_idx' = 1
    /\ pc' = IF Len(adapters') = 0 THEN "done" ELSE "fetch"
    /\ UNCHANGED << raw_config, config, ticks, removals, raised >>

\* the second loop, "await fetch()": the initial fetch of adapter setup_idx
SetupFetch ==
    /\ pc = "fetch"
    /\ pc' = "await"
    /\ hist' = [hist EXCEPT
                  ![setup_idx].initial_fetches = @ + 1,
                  ![setup_idx].overlapped = @ \/ InFlight(setup_idx) > 0]
    /\ UNCHANGED << raw_config, config, setup_idx, adapters, fetched, available,
                    sensors, registered_sensors, entities, scheduled, timers,
                    awaiting, log, ticks, removals, raised >>

\* faulty variant: no timer for an adapter whose initial fetch failed
SetupTrack_only_available ==
    /\ pc = "track"
    /\ timers' = [timers EXCEPT ![setup_idx] = IF available[setup_idx] THEN @ + 1 ELSE @]
    /\ setup_idx' = setup_idx + 1
    /\ pc' = IF setup_idx + 1 > Len(adapters) THEN "done" ELSE "fetch"
    /\ UNCHANGED << raw_config, config, adapters, fetched, available, sensors,
                    registered_sensors, entities, scheduled, awaiting, log, hist,
                    ticks, removals, raised >>

\* the second loop, async_track_time_interval, then the next adapter
SetupTrack ==
    /\ pc = "track"
    /\ timers' = [timers EXCEPT ![setup_idx] = @ + 1]
    /\ setup_idx' = setup_idx + 1
    /\ pc' = IF setup_idx + 1 > Len(adapters) THEN "done" ELSE "fetch"
    /\ UNCHANGED << raw_config, config, adapters, fetched, available, sensors,
                    registered_sensors, entities, scheduled, awaiting, log, hist,
                    ticks, removals, raised >>

\* the interval of adapter a elapses: its fetch_data starts async_update
TimerTick(a, budget) ==
    /\ timers[a] > 0
    /\ ticks < budget
    /\ ticks' = ticks + 1
    /\ awaiting' = [awaiting EXCEPT ![a] = @ + timers[a]]
    /\ hist' = [hist EXCEPT ![a].overlapped = @ \/ InFlight(a) > 0]
    /\ UNCHANGED << raw_config, config, pc, setup_idx, adapters, fetched,
                    available, sensors, registered_sensors, entities, scheduled,
                    timers, log, removals, raised >>

(***************************************************************************)
(* The host's handling of the entities                                     *)
(***************************************************************************)
\* add_entities(new_sensors, True): the entity is refreshed before it is
\* added; the host drops an entity whose first refresh raises
EntityUpdateBeforeAdd(a, e) ==
    /\ entities[a][e].phase = "new"
    /\ entities' = [entities EXCEPT ![a][e] =
            IF SensorUpdateRaises(fetched[a], @)
            THEN [@ EXCEPT !.phase = "failed"]
            ELSE [SensorUpdate(fetched[a], @) EXCEPT !.phase = "updated"]]
    /\ raised' = IF SensorUpdateRaises(fetched[a], entities[a][e])
                 THEN raised \cup {"AttributeError"} ELSE raised
    /\ UNCHANGED << raw_config, config, pc, setup_idx, adapters, fetched,
                    available, sensors, registered_sensors, scheduled, timers,
                    awaiting, log, hist, ticks, removals >>

\* FroniusTemplateSensor.async_added_to_hass: FroniusAdapter.register
EntityAddedToHass(a, e) ==
    /\ entities[a][e].phase = "updated"
    /\ entities' = [entities EXCEPT ![a][e].phase = "added"]
    /\ registered_sensors' = [registered_sensors EXCEPT ![a] = @ \cup {e}]
    /\ UNCHANGED << raw_config, config, pc, setup_idx, adapters, fetched,
                    available, sensors, scheduled, timers, awaiting, log, hist,
                    ticks, removals, raised >>

\* a refresh scheduled by async_schedule_update_ha_state(True) runs
EntityRefresh(a, e) ==
    /\ scheduled[a][e] > 0
    /\ scheduled' = [scheduled EXCEPT ![a][e] = @ - 1]
    /\ entities' = [entities EXCEPT ![a][e] = SensorUpdate(fetched[a], @)]
    /\ raised' = IF SensorUpdateRaises(fetched[a], entities[a][e])
                 THEN raised \cup {"AttributeError"} ELSE raised
    /\ UNCHANGED << raw_config, config, pc, setup_idx, adapters, fetched,
                    available, sensors, registered_sensors, timers, awaiting,
                    log, hist, ticks, removals >>

\* the host removes the entity: the callback register returned runs
EntityRemove(a, e) ==
    /\ entities[a][e].phase = "added"
    /\ removals < MaxRemovals
    /\ removals' = removals + 1
    /\ entities' = [entities EXCEPT ![a][e].phase = "removed"]
    /\ registered_sensors' = [registered_sensors EXCEPT ![a] = @ \ {e}]
    /\ UNCHANGED << raw_config, config, pc, setup_idx, adapters, fetched,
                    available, sensors, scheduled, timers, awaiting, log, hist,
                    ticks, raised >>

\* faulty variant: the entity does not ask its parent
SensorAvailable_always(a, e) == TRUE

\* FroniusTemplateSensor.available
SensorAvailable(a, e) == available[a]

(***************************************************************************)
(* The platform: set-up, timers, fetches and entities.                     *)
(***************************************************************************)
InitWith(configs) ==
    /\ raw_config \in configs
    /\ config = raw_config
    /\ pc = "unvalidated"
    /\ setup_idx = 0
    /\ adapters = << >>
    /\ fetched = << >>
    /\ available = << >>
    /\ sensors = << >>
    /\ registered_sensors = << >>
    /\ entities = << >>
    /\ scheduled = << >>
    /\ timers = << >>
    /\ awaiting = << >>
    /\ log = << >>
    /\ hist = << >>
    /\ ticks = 0
    /\ removals = 0
    /\ raised = {}

Init == InitWith(OneAdapterConfigs)

Next ==
    \/ ValidateConfig
    \/ SetupCreateAdapters
    \/ SetupFetch
    \/ SetupTrack
    \/ \E a \in AdapterIds : TimerTick(a, MaxTicks)
    \/ \E a \in AdapterIds, caller \in {"setup", "timer"} : FetchFail(a, caller)
    \/ \E a \in AdapterIds, caller \in {"setup", "timer"}, values \in Responses :
            FetchSuccess(a, caller, values)
    \/ \E a \in AdapterIds : \E e \in DOMAIN entities[a] : EntityUpdateBeforeAdd(a, e)
    \/ \E a \in AdapterIds : \E e \in DOMAIN entities[a] : EntityAddedToHass(a, e)
    \/ \E a \in AdapterIds : \E e \in DOMAIN entities[a] : EntityRefresh(a, e)
    \/ \E a \in AdapterIds : \E e \in DOMAIN entities[a] : EntityRemove(a, e)

Spec == Init /\ [][Next]_vars

(***************************************************************************)
(* The set-up of several adapters: the same operations, the client         *)
(* answering with one dict.                                                *)
(***************************************************************************)
SetupResponses ==
    { r \in Responses : DOMAIN r = {"power_ac"} /\ r["power_ac"].value = PyFloat(1234) }

InitSetup == InitWith(SetupConfigs)

NextSetup ==
    \/ ValidateConfig
    \/ SetupCreateAdapters
    \/ SetupFetch
    \/ SetupTrack
    \/ \E a \in AdapterIds : TimerTick(a, MaxSetupTicks)
    \/ \E a \in AdapterIds, caller \in {"setup", "timer"} : FetchFail(a, caller)
    \/ \E a \in AdapterIds, caller \in {"setup", "timer"}, values \in SetupResponses :
            FetchSuccess(a, caller, values)
    \/ \E a \in AdapterIds : \E e \in DOMAIN entities[a] : EntityUpdateBeforeAdd(a, e)
    \/ \E a \in AdapterIds : \E e \in DOMAIN entities[a] : EntityAddedToHass(a, e)
    \/ \E a \in AdapterIds : \E e \in DOMAIN entities[a] : EntityRefresh(a, e)
    \/ \E a \in AdapterIds : \E e \in DOMAIN entities[a] : EntityRemove(a, e)

SpecSetup == InitSetup /\ [][NextSetup]_vars

(***************************************************************************)
(* The validator alone, over every configuration of at most MaxConds       *)
(* conditions.                                                             *)
(***************************************************************************)
InitValidator == InitWith(RawConfigs)

NextValidator == ValidateConfig

SpecValidator == InitValidator /\ [][NextValidator]_vars

(***************************************************************************)
(* The discovery of one field by the initial fetch, over many field names. *)
(***************************************************************************)
KeyWords ==
    { "", "state_of_charge", "temperature", "power_factor", "power", "energy",
      "current", "timestamp", "voltage", "powe", "_", "x" }

SampleKeys == { w1 \o w2 : w1 \in KeyWords, w2 \in KeyWords }

KeyResponses == { key :> [value |-> PyInt(1)] : key \in SampleKeys }

NextSensor ==
    \/ ValidateConfig
    \/ SetupCreateAdapters
    \/ SetupFetch
    \/ \E values \in KeyResponses : FetchSuccess(1, "setup", values)

SpecSensor == Init /\ [][NextSensor]_vars

(***************************************************************************)
(* Properties.                                                             *)
(***************************************************************************)
\* the entities adapter a made for field name key
EntitiesFor(a, key) == { e \in DOMAIN entities[a] : entities[a][e]._key = key }

\* a fetch of adapter a completes in this step
Completes(a) == hist'[a].completed = hist[a].completed + 1

Succeeds(a) == Completes(a) /\ hist'[a].last_outcome = "ok"

Fails(a) == Completes(a) /\ hist'[a].last_outcome = "fail"

\* C1: for one adapter and any sequence of fetches, every field name of the
\* merged snapshot has exactly one sensor entity and no other field name has
\* any: a field is materialized once, by the first successful fetch whose
\* snapshot holds it, and never again.
C1_MaterializedOnce ==
    \A a \in AdapterIds : \A key \in FieldNames :
        Cardinality(EntitiesFor(a, key)) = IF key \in DOMAIN fetched[a] THEN 1 ELSE 0

\* a field seen by two successful fetches (its entity still shows the first
\* value, the snapshot the second), a failure in between or after
C1_Witness ==
    \E a \in AdapterIds :
        /\ "power_ac" \in DOMAIN fetched[a]
        /\ fetched[a]["power_ac"].value = PyFloat(5678)
        /\ \E e \in EntitiesFor(a, "power_ac") :
                entities[a][e]._attr_native_value = PyFloat(1230)
        /\ log[a].error >= 1
        /\ hist[a].completed >= 3

\* C2: the error lines of an adapter number its failure streaks (one line,
\* written by the first failure of each streak), a streak of two failures has
\* written one line, and after a successful fetch the adapter is available.
C2_LogOncePerStreak ==
    \A a \in AdapterIds :
        /\ log[a].error = hist[a].streaks
        /\ hist[a].fail_streak >= 1 => hist[a].streak_errors = 1
        /\ hist[a].last_outcome = "ok" => available[a]

\* a second streak, two failures long, after a success
C2_Witness ==
    \E a \in AdapterIds :
        /\ hist[a].fail_streak = 2
        /\ hist[a].streaks = 2
        /\ log[a].error = 2

\* C3: the availability flag is the outcome of the most recently completed
\* fetch (true before any), and every entity of the adapter reports it; so
\* after a failed fetch every entity reports unavailable.
C3_AvailabilityIsLastOutcome ==
    \A a \in AdapterIds :
        /\ available[a] = (hist[a].last_outcome # "fail")
        /\ \A e \in DOMAIN entities[a] :
                SensorAvailable(a, e) = (hist[a].last_outcome # "fail")

\* an added entity reporting unavailable after a failure that followed a success
C3_Witness ==
    \E a \in AdapterIds : \E e \in registered_sensors[a] :
        /\ hist[a].last_outcome = "fail"
        /\ hist[a].completed >= 2
        /\ ~SensorAvailable(a, e)

\* C4: the validator gives a condition without device index the index 1 when
\* it is an inverter and 0 otherwise, keeps an index that was given, and
\* leaves the number, order, sensor type and scope of the conditions alone.
C4_DefaultDeviceIndex ==
    pc = "start" =>
        LET raw == raw_config[CONF_MONITORED_CONDITIONS]
            out == config[CONF_MONITORED_CONDITIONS]
        IN  /\ Len(out) = Len(raw)
            /\ config[CONF_RESOURCE] = raw_config[CONF_RESOURCE]
            /\ \A i \in 1..Len(raw) :
                /\ DOMAIN out[i] = {CONF_SENSOR_TYPE, CONF_SCOPE, CONF_DEVICE}
                /\ out[i][CONF_SENSOR_TYPE] = raw[i][CONF_SENSOR_TYPE]
                /\ out[i][CONF_SCOPE] = raw[i][CONF_SCOPE]
                /\ CONF_DEVICE \in DOMAIN raw[i] => out[i][CONF_DEVICE] = raw[i][CONF_DEVICE]
                /\ (CONF_DEVICE \notin DOMAIN raw[i] /\ raw[i][CONF_SENSOR_TYPE] = "inverter")
                        => out[i][CONF_DEVICE] = 1
                /\ (CONF_DEVICE \notin DOMAIN raw[i] /\ raw[i][CONF_SENSOR_TYPE] # "inverter")
                        => out[i][CONF_DEVICE] = 0

\* validated: an inverter without index, then a meter with index 2
C4_Witness ==
    /\ pc = "start"
    /\ raw_config[CONF_MONITORED_CONDITIONS]
            = << Cond(TYPE_INVERTER, SCOPE_SYSTEM), CondDev(TYPE_METER, SCOPE_DEVICE, 2) >>
    /\ config[CONF_MONITORED_CONDITIONS][1][CONF_DEVICE] = 1
    /\ config[CONF_MONITORED_CONDITIONS][2][CONF_DEVICE] = 2

\* the entries of mapping whose prefix key starts with
Matches(mapping, key) == { i \in DOMAIN mapping : startswith(key, mapping[i][1]) }

\* the class the first matching entry of mapping gives key, None without one
FirstMatchClass(mapping, key) ==
    IF Matches(mapping, key) = {} THEN PyNone
    ELSE LET first == CHOOSE i \in Matches(mapping, key) :
                        \A j \in Matches(mapping, key) : i <= j
         IN  PyStr(mapping[first][2])

\* C5: the device class and the state class of an entity are those of the
\* first entry, in table order, whose prefix its field name starts with, and
\* None when no prefix matches; "power_factor..." is a power factor.
C5_FirstMatchingPrefix ==
    \A a \in AdapterIds : \A e \in DOMAIN entities[a] :
        LET sensor == entities[a][e]
        IN  /\ sensor._attr_device_class
                    = FirstMatchClass(PREFIX_DEVICE_CLASS_MAPPING, sensor._key)
            /\ sensor._attr_state_class
                    = FirstMatchClass(PREFIX_STATE_CLASS_MAPPING, sensor._key)
            /\ startswith(sensor._key, "power_factor")
                    => sensor._attr_device_class = PyStr("power_factor")

\* a field name that starts with both "power_factor" and "power"
C5_Witness ==
    \E a \in AdapterIds : \E e \in DOMAIN entities[a] :
        /\ entities[a][e]._key = "power_factor_"
        /\ entities[a][e]._attr_device_class = PyStr("power_factor")
        /\ entities[a][e]._attr_state_class = PyStr("measurement")

\* C10: once two fetches of an adapter have overlapped, whatever the order
\* and the outcomes of their completions, no field name has more than one
\* entity and no failure streak has written more than one error line.
C10_OverlapSafe ==
    \A a \in AdapterIds :
        hist[a].overlapped =>
            /\ \A key \in FieldNames : Cardinality(EntitiesFor(a, key)) <= 1
            /\ hist[a].streak_errors <= 1
            /\ log[a].error <= hist[a].streaks

\* two overlapping fetches have both failed, after a success made entities
C10_Witness ==
    \E a \in AdapterIds :
        /\ hist[a].overlapped
        /\ InFlight(a) = 0
        /\ hist[a].fail_streak = 2
        /\ entities[a] # << >>

\* what a step in which a fetch of an adapter fails leaves alone
C6_FailureStep ==
    \A a \in AdapterIds :
        Fails(a) =>
            /\ fetched'[a] = fetched[a]
            /\ sensors'[a] = sensors[a]
            /\ registered_sensors'[a] = registered_sensors[a]
            /\ entities'[a] = entities[a]
            /\ scheduled'[a] = scheduled[a]
            /\ log'[a].info = log[a].info
            /\ log'[a].error \in {log[a].error, log[a].error + 1}
            /\ ~available'[a]
            /\ raised' = raised
            /\ (awaiting' = awaiting) => (pc = "await" /\ pc' = "track")

\* C6: a fetch that fails leaves the snapshot, the materialized field names,
\* the registered entities, the entities and the scheduled refreshes as they
\* were, makes no entity and raises nothing into its caller, which goes on;
\* only the availability flag and, at most by one line, the error log change.
C6_FailureSkipsUpdate == [][C6_FailureStep]_vars

\* a failure met a snapshot, an added entity and a refresh still scheduled
C6_Witness ==
    \E a \in AdapterIds : \E e \in registered_sensors[a] :
        /\ hist[a].last_outcome = "fail"
        /\ DOMAIN fetched[a] = {"power_ac", "energy_day"}
        /\ scheduled[a][e] >= 1
        /\ log[a].error = 1

\* the sensor type and scope an adapter class stands for
SensorTypeOf(cls) ==
    CASE cls \in {"FroniusInverterSystem", "FroniusInverterDevice"} -> TYPE_INVERTER
      [] cls \in {"FroniusMeterSystem", "FroniusMeterDevice"} -> TYPE_METER
      [] cls = "FroniusPowerFlow" -> TYPE_POWER_FLOW
      [] cls = "FroniusLoggerInfo" -> TYPE_LOGGER_INFO
      [] cls = "FroniusStorage" -> TYPE_STORAGE

C7_SetupState ==
    /\ pc \notin {"unvalidated", "start"} =>
            /\ Len(adapters) = Len(config[CONF_MONITORED_CONDITIONS])
            /\ \A i \in 1..Len(adapters) :
                /\ SensorTypeOf(adapters[i].cls)
                        = config[CONF_MONITORED_CONDITIONS][i][CONF_SENSOR_TYPE]
                /\ adapters[i]._device = config[CONF_MONITORED_CONDITIONS][i][CONF_DEVICE]
    /\ \A a \in AdapterIds :
            /\ hist[a].initial_fetches
                    = IF a < setup_idx \/ (a = setup_idx /\ pc \in {"await", "track"})
                      THEN 1 ELSE 0
            /\ timers[a] = IF a < setup_idx THEN 1 ELSE 0
            /\ timers[a] = 1 => hist[a].completed >= 1
    /\ pc = "done" => setup_idx = Len(adapters) + 1

C7_SetupStep ==
    /\ \A a \in AdapterIds :
            (Completes(a) /\ awaiting' = awaiting) =>
                (a = setup_idx /\ pc = "await" /\ pc' = "track")
    /\ ticks' = ticks + 1 =>
            \E a \in AdapterIds :
                /\ timers[a] = 1
                /\ awaiting' = [awaiting EXCEPT ![a] = @ + 1]

\* C7: the set-up makes one adapter per monitored condition, in order; each
\* adapter gets one initial fetch, and its timer only once that fetch has
\* completed, whether it failed or not; when the set-up is done every adapter
\* has its timer; a tick of a timer starts one fetch of its adapter.
C7_SetupOrder == [][C7_SetupState /\ C7_SetupState' /\ C7_SetupStep]_vars

\* three adapters set up although the initial fetch of the first one failed
C7_Witness ==
    /\ pc = "done"
    /\ Len(adapters) = 3
    /\ hist[1].completed = 1
    /\ hist[1].last_outcome = "fail"
    /\ hist[3].last_outcome = "ok"
    /\ timers[3] = 1

\* entity e of adapter a is refreshed in this step: before it is added, or by
\* a scheduled refresh
Refreshes(a, e) ==
    \/ entities[a][e].phase = "new" /\ entities'[a][e].phase # "new"
    \/ scheduled'[a][e] = scheduled[a][e] - 1

\* a successful fetch schedules one refresh per registered entity
SchedulesRegistered(a) ==
    Succeeds(a) =>
        \A e \in registered_sensors[a] : scheduled'[a][e] = scheduled[a][e] + 1

\* a refresh finds its field in the snapshot and raises nothing
RefreshFindsField(a, e) ==
    /\ entities[a][e]._key \in DOMAIN fetched[a]
    /\ entities'[a][e].phase # "failed"
    /\ raised' = raised

\* the value a refresh must store for the snapshot value v: v itself, a float
\* as the nearest multiple of one hundredth
IsStoredValueOf(stored, v) ==
    IF v.type = "float"
    THEN /\ stored.type = "float"
         /\ stored.milli % 10 = 0
         /\ stored.milli - v.milli \in -4..4
    ELSE stored = v

C8_AmendedStep ==
    \A a \in AdapterIds :
        /\ SchedulesRegistered(a)
        /\ \A e \in DOMAIN entities[a] :
            Refreshes(a, e) =>
                /\ RefreshFindsField(a, e)
                /\ IsStoredValueOf(entities'[a][e]._attr_native_value,
                                   fetched[a][entities[a][e]._key].value)
                /\ entities'[a][e]._attr_native_unit_of_measurement
                        = get(fetched[a][entities[a][e]._key], "unit")

\* C8 (amended): a successful fetch schedules a refresh for every registered
\* entity; a refresh always finds its field in the snapshot and stores the
\* entry's unit (None without one) and the entry's value, a float value
\* rounded to two decimals.
C8_RefreshStoresRounded == [][C8_AmendedStep]_vars

\* an added entity holding 5.68 for the snapshot's 5.678, nothing scheduled
C8_Witness ==
    \E a \in AdapterIds : \E e \in registered_sensors[a] :
        /\ fetched[a][entities[a][e]._key].value = PyFloat(5678)
        /\ entities[a][e]._attr_native_value = PyFloat(5680)
        /\ entities[a][e]._attr_native_unit_of_measurement = PyStr("W")
        /\ scheduled[a][e] = 0
        /\ hist[a].completed >= 2

C8_OriginalStep ==
    \A a \in AdapterIds :
        /\ SchedulesRegistered(a)
        /\ \A e \in DOMAIN entities[a] :
            Refreshes(a, e) =>
                /\ RefreshFindsField(a, e)
                /\ entities'[a][e]._attr_native_value
                        = fetched[a][entities[a][e]._key].value
                /\ entities'[a][e]._attr_native_unit_of_measurement
                        = get(fetched[a][entities[a][e]._key], "unit")

\* C8 as claimed: a refresh stores the entry's value itself.
C8_RefreshCopiesEntry == [][C8_OriginalStep]_vars

C9_SnapshotState ==
    \A a \in AdapterIds :
        /\ sensors[a] = DOMAIN fetched[a]
        /\ \A key \in DOMAIN fetched[a] : "value" \in DOMAIN fetched[a][key]

C9_SnapshotStep ==
    \A a \in AdapterIds :
        /\ DOMAIN fetched[a] \subseteq DOMAIN fetched'[a]
        /\ ~Succeeds(a) => fetched'[a] = fetched[a]
        /\ Succeeds(a) =>
            LET values == hist'[a].last_values
            IN  \A key \in FieldNames :
                    IF key \in DOMAIN values /\ "value" \in DOMAIN values[key]
                    THEN /\ key \in DOMAIN fetched'[a]
                         /\ fetched'[a][key] = values[key]
                    ELSE /\ key \in DOMAIN fetched'[a] <=> key \in DOMAIN fetched[a]
                         /\ key \in DOMAIN fetched[a] => fetched'[a][key] = fetched[a][key]

\* C9: the snapshot is a merge.  A successful fetch copies the response's
\* entries that have a "value" member over the entries of the same name and
\* leaves every other field as it was; the key set never shrinks; only
\* entries with a "value" member are in the snapshot; the materialized field
\* names are the snapshot's keys.
C9_SnapshotMerges == [][C9_SnapshotState /\ C9_SnapshotState' /\ C9_SnapshotStep]_vars

\* the last response had no power_ac, which the snapshot still holds, and a
\* status entry, which the snapshot does not hold
C9_Witness ==
    \E a \in AdapterIds :
        /\ hist[a].last_outcome = "ok"
        /\ DOMAIN hist[a].last_values = {"energy_day", "status"}
        /\ DOMAIN fetched[a] = {"power_ac", "energy_day"}

====
